---- MODULE Spec2Model ----
(***************************************************************************)
(* Model of the weather analytics engine of src/backend:                   *)
(*   WeatherService.calculate_statistics      (weather_service.py)         *)
(*   PredictionService.analyze_trend                                       *)
(*   PredictionService.detect_seasonality                                  *)
(*   PredictionService.generate_forecast      (prediction_service.py)      *)
(*                                                                         *)
(* Python floats are IEEE-754 binary64 numbers.  They are modelled here    *)
(* bit for bit: a finite float is sign * mantissa * 2^exponent with a      *)
(* 53-bit mantissa, and every operation computes the exact result and      *)
(* rounds it to nearest, ties to even.  Mantissas do not fit the 32-bit    *)
(* integers of TLC, so they are kept as little-endian sequences of         *)
(* 15-bit limbs.  Infinities, NaN, subnormals and the sign of zero are not *)
(* modelled: the inputs of the model stay far inside the normal range.     *)
(* Python ints are unbounded; the model's stay below 2^31.                 *)
(*                                                                         *)
(* Two operations of the interpreter are modelled by the IEEE operation    *)
(* they stand for.  x ** 2 is the correctly rounded square x * x (the C    *)
(* library's pow may be one unit in the last place away from it), and      *)
(* sum() adds from left to right, as CPython does up to version 3.11.      *)
(*                                                                         *)
(* A value that the source binds to a variable and then reads more than    *)
(* once is the parameter of an operator here: the source's sequence of     *)
(* assignments becomes a chain of operators, each one binding the next     *)
(* variables from the ones bound so far.                                   *)
(***************************************************************************)
EXTENDS Integers, Sequences, FiniteSets, TLC

(***************************************************************************)
(* Natural numbers of any size: little-endian sequences of limbs in        *)
(* 0..Base-1, no leading zero limb, zero is <<>>.                          *)
(***************************************************************************)
LimbBits == 5 * 3
Base == 2^LimbBits
MantBits == 50 + 3

\* TLC computes an operand when it is first used, and every pending
\* operation is a frame of a small stack.  The arithmetic below is therefore
\* written without loops over limbs, and a recursion computes its
\* accumulator before it descends: Known(v) is TRUE and computes v where it
\* stands.
Known(v) == v = v

MinOf2(a, b) == IF b < a THEN b ELSE a
MaxOf2(a, b) == IF b > a THEN b ELSE a

Limb(a, i) == IF i >= 1 /\ i <= Len(a) THEN a[i] ELSE 0

\* the largest element of a set of positive integers, 0 for the empty set
TopOf(S) == IF S = {} THEN 0 ELSE CHOOSE i \in S : \A j \in S : j <= i

\* a without its leading zero limbs
BNorm(a) == SubSeq(a, 1, TopOf({i \in 1..Len(a) : a[i] # 0}))

\* for 0 <= n < 2^31
BFromInt(n) == BNorm(<<n % Base, (n \div Base) % Base, n \div (Base * Base)>>)

\* for a < 2^31
BToInt(a) == Limb(a, 1) + Base * Limb(a, 2) + Base * Base * Limb(a, 3)

\* a against b of the same length, which differ last at limb i (0: nowhere)
BCmpAt(a, b, i) == IF i = 0 THEN 0 ELSE IF a[i] > b[i] THEN 1 ELSE -1

\* -1, 0, 1
BCmp(a, b) ==
    IF Len(a) > Len(b) THEN 1
    ELSE IF Len(a) < Len(b) THEN -1
    ELSE BCmpAt(a, b, TopOf({i \in 1..Len(a) : a[i] # b[i]}))

\* The carry into limb i of a sum whose limb sums are s: a lower limb
\* overflows and every limb between is full.
BCarry(s, i) ==
    IF \E j \in 1..(i - 1) :
          s[j] >= Base /\ \A k \in (j + 1)..(i - 1) : s[k] = Base - 1
    THEN 1 ELSE 0

BAddSums(s) == BNorm([i \in 1..Len(s) |-> (s[i] + BCarry(s, i)) % Base])

BAdd(a, b) ==
    BAddSums(SubSeq([i \in 1..(MaxOf2(Len(a), Len(b)) + 1) |-> Limb(a, i) + Limb(b, i)],
                    1, MaxOf2(Len(a), Len(b)) + 1))

\* The borrow from limb i of a difference whose limb differences are d
BBorrow(d, i) ==
    IF \E j \in 1..(i - 1) :
          d[j] < 0 /\ \A k \in (j + 1)..(i - 1) : d[k] = 0
    THEN 1 ELSE 0

BSubDiffs(d) == BNorm([i \in 1..Len(d) |-> (d[i] - BBorrow(d, i) + Base) % Base])

\* a - b for a >= b
BSub(a, b) == BSubDiffs(SubSeq([i \in 1..Len(a) |-> a[i] - Limb(b, i)], 1, Len(a)))

\* a * d for a limb-sized d (0 <= d < Base): the low halves of the limb
\* products plus their high halves one limb up
BMulSmall(a, d) ==
    BAdd([i \in 1..Len(a) |-> (a[i] * d) % Base],
         [i \in 1..(Len(a) + 1) |-> IF i = 1 THEN 0 ELSE (a[i - 1] * d) \div Base])

Zeros(k) == [i \in 1..k |-> 0]

\* a * b for mantissas, of at most 4 limbs: column k collects the low halves
\* of the limb products a[i] * b[k + 1 - i] and the high halves of the
\* column below
BMulCol(a, b, k) ==
      ((Limb(a, 1) * Limb(b, k)) % Base) + ((Limb(a, 2) * Limb(b, k - 1)) % Base)
    + ((Limb(a, 3) * Limb(b, k - 2)) % Base) + ((Limb(a, 4) * Limb(b, k - 3)) % Base)
    + ((Limb(a, 1) * Limb(b, k - 1)) \div Base) + ((Limb(a, 2) * Limb(b, k - 2)) \div Base)
    + ((Limb(a, 3) * Limb(b, k - 3)) \div Base) + ((Limb(a, 4) * Limb(b, k - 4)) \div Base)

BMulCols(col) ==
    BAdd([k \in 1..8 |-> col[k] % Base],
         [k \in 1..9 |-> IF k = 1 THEN 0 ELSE col[k - 1] \div Base])

BMul(a, b) == BMulCols(SubSeq([k \in 1..8 |-> BMulCol(a, b, k)], 1, 8))

\* a * 2^k
BShl(a, k) ==
    IF a = <<>> THEN a
    ELSE Zeros(k \div LimbBits) \o BMulSmall(a, 2^(k % LimbBits))

\* floor(a / 2^k), k = LimbBits * ls + r
BShrBy(a, ls, r) ==
    BNorm([i \in 1..(Len(a) - ls) |->
              (a[i + ls] \div 2^r) + (Limb(a, i + ls + 1) % 2^r) * 2^(LimbBits - r)])

BShr(a, k) ==
    IF Len(a) <= k \div LimbBits THEN <<>>
    ELSE BShrBy(a, k \div LimbBits, k % LimbBits)

\* bit i of a, bit 0 the least significant
BBit(a, i) == (Limb(a, i \div LimbBits + 1) \div 2^(i % LimbBits)) % 2

\* whether a mod 2^k is not 0
BLowNonZero(a, k) ==
    \/ \E i \in 1..(k \div LimbBits) : Limb(a, i) # 0
    \/ Limb(a, k \div LimbBits + 1) % 2^(k % LimbBits) # 0

\* the number of bits of a limb
IntBitLen(n) == Cardinality({k \in 0..(LimbBits - 1) : 2^k <= n})
BBitLen(a) == IF a = <<>> THEN 0 ELSE (Len(a) - 1) * LimbBits + IntBitLen(a[Len(a)])

\* Long division (Knuth's algorithm D) of mantissas: for a and b of MantBits
\* bits, floor(a * Base^4 / b) and whether the division left a remainder.
\* NormShift makes the divisor's top limb at least Base/2, so that a
\* quotient limb estimated from the top limbs is at most 2 too large.
NormShift == 4 * LimbBits - MantBits

\* the estimate of one quotient limb: rs < bn * Base
BDivEst(rs, bn) == MinOf2(Base - 1, (Limb(rs, 5) * Base + Limb(rs, 4)) \div bn[4])

\* the quotient limb from its estimate
BDivFix(rs, bn, qhat) ==
    IF BCmp(BMulSmall(bn, qhat), rs) <= 0 THEN qhat
    ELSE IF BCmp(BMulSmall(bn, qhat - 1), rs) <= 0 THEN qhat - 1
    ELSE qhat - 2

BDivRem(rs, bn, q) == [q |-> q, r |-> BSub(rs, BMulSmall(bn, q))]

BDivDigit(rs, bn) == BDivRem(rs, bn, BDivFix(rs, bn, BDivEst(rs, bn)))

\* the remainder r one limb up
BUp(r) == IF r = <<>> THEN r ELSE <<0>> \o r

\* k more quotient limbs below the limbs quot, from the remainder r
RECURSIVE BDivDigits(_, _, _, _)
BDivNext(bn, k, quot, d) ==
    IF Known(d) THEN BDivDigits(d.r, bn, k - 1, <<d.q>> \o quot) ELSE d

BDivDigits(r, bn, k, quot) ==
    IF k = 0 THEN [quot |-> BNorm(quot), inexact |-> r # <<>>]
    ELSE BDivNext(bn, k, quot, BDivDigit(BUp(r), bn))

BDivLead(an, bn, lead) ==
    BDivDigits(IF lead = 1 THEN BSub(an, bn) ELSE an, bn, 4, <<lead>>)

BDivNormed(an, bn) == BDivLead(an, bn, IF BCmp(an, bn) >= 0 THEN 1 ELSE 0)

BDivMant(a, b) == BDivNormed(BShl(a, NormShift), BShl(b, NormShift))

\* floor(sqrt(n)) and whether n is not a square: the root bit by bit, bit
\* being a power of 4 not above n
BSqrtTry(s, t, fits) ==
    [n |-> IF fits THEN BSub(s.n, t) ELSE s.n,
     res |-> IF fits THEN BAdd(BShr(s.res, 1), s.bit) ELSE BShr(s.res, 1),
     bit |-> BShr(s.bit, 2)]

BSqrtFit(s, t) == BSqrtTry(s, t, BCmp(s.n, t) >= 0)

BSqrtStep(s) == IF s.bit = <<>> THEN s ELSE BSqrtFit(s, BAdd(s.res, s.bit))

\* k steps, the first half before the second
RECURSIVE BSqrtSteps(_, _)
BSqrtSteps(s, k) ==
    IF k = 0 THEN s
    ELSE IF k = 1 THEN BSqrtStep(s)
    ELSE LET h == BSqrtSteps(s, k \div 2)
         IN  IF Known(h) THEN BSqrtSteps(h, k - k \div 2) ELSE h

BSqrtOut(s) == [root |-> s.res, inexact |-> s.n # <<>>]

BSqrtFrom(n, top) ==
    BSqrtOut(BSqrtSteps([n |-> n, res |-> <<>>, bit |-> BShl(<<1>>, 2 * top)], top + 1))

BSqrt(n) ==
    IF n = <<>> THEN [root |-> <<>>, inexact |-> FALSE]
    ELSE BSqrtFrom(n, (BBitLen(n) - 1) \div 2)

(***************************************************************************)
(* binary64.  A float is [sg, ex, mn]: (-1)^sg * mn * 2^ex, where mn has   *)
(* exactly MantBits bits; zero is [sg |-> 0, ex |-> 0, mn |-> <<>>].        *)
(***************************************************************************)
FZero == [sg |-> 0, ex |-> 0, mn |-> <<>>]

\* the float of a mantissa q of MantBits bits, or of MantBits + 1 bits after
\* a rounding that carried
FPack(sg, q, e) ==
    IF BBitLen(q) > MantBits THEN [sg |-> sg, ex |-> e + 1, mn |-> BShr(q, 1)]
    ELSE [sg |-> sg, ex |-> e, mn |-> q]

\* m without its sh lowest bits, rounded
FCut(sg, m, e, sticky, sh, q) ==
    FPack(sg,
          IF BBit(m, sh - 1) = 1
             /\ (sticky \/ BLowNonZero(m, sh - 1) \/ BBit(q, 0) = 1)
          THEN BAdd(q, <<1>>) ELSE q,
          e + sh)

FRoundBits(sg, m, e, sticky, bl) ==
    IF bl = 0 THEN FZero
    ELSE IF bl <= MantBits
    THEN [sg |-> sg, ex |-> e - (MantBits - bl), mn |-> BShl(m, MantBits - bl)]
    ELSE FCut(sg, m, e, sticky, bl - MantBits, BShr(m, bl - MantBits))

\* round to nearest, ties to even, of (-1)^sg * (m + f) * 2^e, where
\* 0 < f < 1 when sticky and f = 0 otherwise
FRound(sg, m, e, sticky) == FRoundBits(sg, m, e, sticky, BBitLen(m))

\* the float of a natural number m below 2^MantBits: no rounding
FExact(sg, m, bl) ==
    IF bl = 0 THEN FZero
    ELSE [sg |-> sg, ex |-> bl - MantBits, mn |-> BShl(m, MantBits - bl)]

FOfNat(sg, m) == FExact(sg, m, BBitLen(m))

\* float(n) of a Python int, |n| < 2^31
FInt(n) == FOfNat(IF n < 0 THEN 1 ELSE 0, BFromInt(IF n < 0 THEN 0 - n ELSE n))

FIsZero(x) == x.mn = <<>>
FNeg(x) == IF FIsZero(x) THEN x ELSE [x EXCEPT !.sg = 1 - x.sg]
FAbs(x) == [x EXCEPT !.sg = 0]

\* compare magnitudes: -1, 0, 1
FCmpAbs(x, y) ==
    IF FIsZero(x) THEN (IF FIsZero(y) THEN 0 ELSE -1)
    ELSE IF FIsZero(y) THEN 1
    ELSE IF x.ex > y.ex THEN 1
    ELSE IF x.ex < y.ex THEN -1
    ELSE BCmp(x.mn, y.mn)

FCmp(x, y) ==
    IF x.sg # y.sg
    THEN (IF FIsZero(x) /\ FIsZero(y) THEN 0 ELSE IF x.sg = 1 THEN -1 ELSE 1)
    ELSE IF x.sg = 0 THEN FCmpAbs(x, y) ELSE 0 - FCmpAbs(x, y)

FLt(x, y) == FCmp(x, y) < 0
FLe(x, y) == FCmp(x, y) <= 0
FGt(x, y) == FCmp(x, y) > 0
FGe(x, y) == FCmp(x, y) >= 0
FEq(x, y) == FCmp(x, y) = 0

\* an addend more than FarBits binary places below the other cannot change
\* the rounded sum
FarBits == 2^6

\* the sum of (-1)^sx * mx * 2^e and (-1)^sy * my * 2^e, c comparing mx to my
FAddSigned(sx, mx, sy, my, e, c) ==
    FRound(IF c >= 0 THEN sx ELSE sy,
           IF sx = sy THEN BAdd(mx, my)
           ELSE IF c >= 0 THEN BSub(mx, my) ELSE BSub(my, mx),
           e, FALSE)

FAddAligned(sx, mx, sy, my, e) == FAddSigned(sx, mx, sy, my, e, BCmp(mx, my))

FAddAt(x, y, e) == FAddAligned(x.sg, BShl(x.mn, x.ex - e), y.sg, BShl(y.mn, y.ex - e), e)

FAdd(x, y) ==
    IF FIsZero(x) THEN y
    ELSE IF FIsZero(y) THEN x
    ELSE IF x.ex - y.ex > FarBits THEN x
    ELSE IF y.ex - x.ex > FarBits THEN y
    ELSE FAddAt(x, y, MinOf2(x.ex, y.ex))

FSub(x, y) == FAdd(x, FNeg(y))

FMul(x, y) ==
    IF FIsZero(x) \/ FIsZero(y) THEN FZero
    ELSE FRound((x.sg + y.sg) % 2, BMul(x.mn, y.mn), x.ex + y.ex, FALSE)

FDivOut(sg, d, e) == FRound(sg, d.quot, e, d.inexact)

\* x / y for y # 0 (Python raises ZeroDivisionError otherwise)
FDiv(x, y) ==
    IF FIsZero(x) THEN FZero
    ELSE FDivOut((x.sg + y.sg) % 2, BDivMant(x.mn, y.mn), x.ex - y.ex - 4 * LimbBits)

FSqrtOut(d, e) == FRound(0, d.root, e, d.inexact)

FSqrtBy(x, k) == FSqrtOut(BSqrt(BShl(x.mn, k)), (x.ex - k) \div 2)

\* math.sqrt(x) for x >= 0 (Python raises ValueError otherwise)
FSqrt(x) ==
    IF FIsZero(x) THEN FZero
    ELSE FSqrtBy(x, IF x.ex % 2 = 0 THEN MantBits + 3 ELSE MantBits + 2)

FMax(x, y) == IF FGt(y, x) THEN y ELSE x
FMin(x, y) == IF FLt(y, x) THEN y ELSE x

\* int(x): truncation towards zero, for |x| < 2^31
FTrunc(x) ==
    IF FIsZero(x) THEN 0
    ELSE (IF x.sg = 1 THEN -1 ELSE 1)
         * BToInt(IF x.ex >= 0 THEN BShl(x.mn, x.ex) ELSE BShr(x.mn, 0 - x.ex))

\* q + f rounded to an integer, ties to even: f >= 1/2 when half, and f is
\* not 0 or 1/2 when rest
BRoundPick(q, half, rest) == IF half /\ (rest \/ q % 2 = 1) THEN q + 1 ELSE q

\* m / 2^sh rounded to an integer
BRoundShr(m, sh) ==
    IF sh <= 0 THEN BToInt(BShl(m, 0 - sh))
    ELSE BRoundPick(BToInt(BShr(m, sh)), BBit(m, sh - 1) = 1,
                    sh > 1 /\ BLowNonZero(m, sh - 1))

\* x rounded to a multiple of 1/scale, as the number of such units: Python
\* rounds the exact binary value of x, ties to even
FRoundTo(x, scale) ==
    IF FIsZero(x) THEN 0
    ELSE (IF x.sg = 1 THEN -1 ELSE 1) * BRoundShr(BMulSmall(x.mn, scale), 0 - x.ex)

\* round(x, 1), in tenths: the float returned is the one nearest to that
\* decimal
FRound1(x) == FRoundTo(x, 10)

\* the digits of f"{x:.2f}", in hundredths
FFormat2(x) == FRoundTo(x, 100)

\* the float literal written num/10^k in the source, k <= 2: the float nearest
\* to the decimal
FDec(num, pow10) == FDiv(FInt(num), FInt(pow10))

\* x ** 2
FSq(x) == FMul(x, x)

\* sum(t) of a sequence of n floats: left to right from the int 0, split in
\* halves to keep the evaluation shallow
RECURSIVE FSumRange(_, _, _, _)
FSumRange(t, lo, hi, acc) ==
    IF lo > hi THEN acc
    ELSE IF lo = hi THEN FAdd(acc, t[lo])
    ELSE LET left == FSumRange(t, lo, (lo + hi) \div 2, acc)
         IN  IF Known(left) THEN FSumRange(t, (lo + hi) \div 2 + 1, hi, left)
             ELSE left
FSum(t, n) == FSumRange(t, 1, n, FZero)

RECURSIVE ISumRange(_, _, _)
ISumRange(t, lo, hi) ==
    IF lo > hi THEN 0
    ELSE IF lo = hi THEN t[lo]
    ELSE ISumRange(t, lo, (lo + hi) \div 2) + ISumRange(t, (lo + hi) \div 2 + 1, hi)
ISum(t, n) == ISumRange(t, 1, n)

\* math.sin((day + 180) * math.pi / 182.5) for day = 0, 1, ...: the values
\* of the C library's sin, which is not an IEEE operation
SinYearTab == <<
      [sg |-> 0, ex |-> -57, mn |-> <<15700,12037,7178,176>>],
      [sg |-> 0, ex |-> -58, mn |-> <<5886,25414,16536,211>>],
      [sg |-> 0, ex |-> -59, mn |-> <<17080,8821,558,141>>],
      [sg |-> 1, ex |-> -59, mn |-> <<16683,8821,558,141>>],
      [sg |-> 1, ex |-> -58, mn |-> <<5687,25414,16536,211>>],
      [sg |-> 1, ex |-> -57, mn |-> <<15664,12037,7178,176>>],
      [sg |-> 1, ex |-> -57, mn |-> <<24981,9288,20761,246>>],
      [sg |-> 1, ex |-> -56, mn |-> <<22201,23275,15974,158>>],
      [sg |-> 1, ex |-> -56, mn |-> <<10571,29048,20029,193>>],
      [sg |-> 1, ex |-> -56, mn |-> <<14826,4040,22205,228>>],
      [sg |-> 1, ex |-> -55, mn |-> <<2630,31636,27463,131>>],
      [sg |-> 1, ex |-> -55, mn |-> <<26368,7821,9777,149>>],
      [sg |-> 1, ex |-> -55, mn |-> <<12338,27681,23408,166>>]>>
SinYear(day) == SinYearTab[day + 1]

(***************************************************************************)
(* The data model.  A reading is a row of weather_readings: temperature,   *)
(* pressure, wind_speed and precipitation are floats, humidity is an int,  *)
(* condition is one of the WeatherCondition values.                        *)
(***************************************************************************)
Conditions == {"sunny", "cloudy", "rainy", "stormy", "snowy"}
SupportedMetrics == {"temperature", "humidity", "pressure", "wind_speed"}

\* None, and a value that is present
None == <<>>
Some(v) == <<v>>

\* a call that raised, a call that returned
Raised(msg) == [raised |-> msg]
Returned(v) == [returned |-> v]
HasRaised(out) == "raised" \in DOMAIN out
HasReturned(out) == "returned" \in DOMAIN out

MinTrendReadings == 10
MinForecastReadings == 24
MinSeasonalReadings == 48
TrendWindow == 48
BaseWindow == 24
MinPeriod == 6
MaxPeriod == 48

\* the literal 1e-10
FEps == FDiv(FInt(1), FMul(FInt(100000), FInt(100000)))

\* sum(values) / len(values)
FMean(values) == FDiv(FSum(values, Len(values)), FInt(Len(values)))

\* sum((x - mean) ** 2 for x in values)
SumSqDev(values, mean) ==
    FSum([i \in 1..Len(values) |-> FSq(FSub(values[i], mean))], Len(values))

\* sum(range(n)) and sum(xi ** 2 for xi in range(n)): Python ints, exact
SumX(n) == ISum([i \in 1..n |-> i - 1], n)
SumX2(n) == ISum([i \in 1..n |-> (i - 1) * (i - 1)], n)

\* sum(x[i] * values[i] for i in range(n))
SumXY(values, n) == FSum([i \in 1..n |-> FMul(FInt(i - 1), values[i])], n)

\* n * sum_x2 - sum_x ** 2
Denominator(n) == n * SumX2(n) - SumX(n) * SumX(n)

\* abs(denominator) < 1e-10
Degenerate(n) == FLt(FAbs(FInt(Denominator(n))), FEps)

\* (n * sum_xy - sum_x * sum_y) / denominator
SlopeOf(n, sum_y, sum_xy) ==
    FDiv(FSub(FMul(FInt(n), sum_xy), FMul(FInt(SumX(n)), sum_y)), FInt(Denominator(n)))

\* historical_data[-k:]
LastK(seq, k) == IF Len(seq) <= k THEN seq ELSE SubSeq(seq, Len(seq) - k + 1, Len(seq))

\* _calculate_trend: the least-squares slope of values over x = 0..n-1
calculate_trend(values) ==
    IF Len(values) < 2 THEN FZero
    ELSE IF Degenerate(Len(values)) THEN FZero
    ELSE SlopeOf(Len(values), FSum(values, Len(values)), SumXY(values, Len(values)))

\* the values of one metric, as analyze_trend extracts them
TrendValues(readings, metric) ==
    [i \in 1..Len(readings) |->
        IF metric = "temperature" THEN readings[i].temperature
        ELSE IF metric = "humidity" THEN FInt(readings[i].humidity)
        ELSE IF metric = "pressure" THEN readings[i].pressure
        ELSE readings[i].wind_speed]

Direction(slope) ==
    IF FLt(FAbs(slope), FDec(1, 100)) THEN "stable"
    ELSE IF FGt(slope, FZero) THEN "increasing"
    ELSE "decreasing"

\* ss_res of analyze_trend
SsRes(values, n, slope, intercept) ==
    FSum([i \in 1..n |->
            FSq(FSub(values[i], FAdd(FMul(slope, FInt(i - 1)), intercept)))], n)

\* a strength that forgets the complement: max(0, ss_res / ss_tot)
StrengthOfResidual(ss_tot, ss_res) ==
    FMax(FZero, IF FIsZero(ss_tot) THEN FZero ELSE FDiv(ss_res, ss_tot))

\* strength of analyze_trend: max(0, r_squared)
Strength(ss_tot, ss_res) ==
    FMax(FZero, IF FIsZero(ss_tot) THEN FZero ELSE FSub(FInt(1), FDiv(ss_res, ss_tot)))

\* a TrendAnalysis whose confidence is not capped at 95
TrendResultUncapped(metric, n, slope, intercept, strength) ==
    [metric |-> metric,
     slope |-> slope,
     direction |-> Direction(slope),
     strength |-> strength,
     prediction |-> FAdd(FMul(slope, FInt(n)), intercept),
     confidence |-> FMul(strength, FInt(100))]

\* the TrendAnalysis that analyze_trend returns
TrendResult(metric, n, slope, intercept, strength) ==
    [metric |-> metric,
     slope |-> slope,
     direction |-> Direction(slope),
     strength |-> strength,
     prediction |-> FAdd(FMul(slope, FInt(n)), intercept),
     confidence |-> FMin(FInt(95), FMul(strength, FInt(100)))]

\* analyze_trend from the intercept on
TrendLine(metric, values, n, sum_y, slope, intercept) ==
    IF Known(intercept)
    THEN TrendResult(metric, n, slope, intercept,
                     Strength(SumSqDev(values, FDiv(sum_y, FInt(n))),
                              SsRes(values, n, slope, intercept)))
    ELSE intercept

\* analyze_trend from the slope on
TrendFit(metric, values, n, sum_y, slope) ==
    IF Known(slope)
    THEN TrendLine(metric, values, n, sum_y, slope,
                   IF Degenerate(n) THEN FDiv(sum_y, FInt(n))
                   ELSE FDiv(FSub(sum_y, FMul(slope, FInt(SumX(n)))), FInt(n)))
    ELSE slope

\* analyze_trend from sum_y on
TrendSums(metric, values, n, sum_y) ==
    IF Known(sum_y)
    THEN TrendFit(metric, values, n, sum_y,
                  IF Degenerate(n) THEN FZero ELSE SlopeOf(n, sum_y, SumXY(values, n)))
    ELSE sum_y

\* the regression of analyze_trend on the extracted values
TrendOf(metric, values) ==
    TrendSums(metric, values, Len(values), FSum(values, Len(values)))

\* an analyze_trend that looks at the metric name before it counts the
\* readings
analyze_trend_metric_first(readings, metric) ==
    IF metric \notin SupportedMetrics
    THEN Raised(<<"Unsupported metric", metric>>)
    ELSE IF Len(readings) < MinTrendReadings
    THEN Raised(<<"Insufficient data for trend analysis">>)
    ELSE Returned(TrendOf(metric, TrendValues(readings, metric)))

analyze_trend(readings, metric) ==
    IF Len(readings) < MinTrendReadings
    THEN Raised(<<"Insufficient data for trend analysis">>)
    ELSE IF metric \notin SupportedMetrics
    THEN Raised(<<"Unsupported metric", metric>>)
    ELSE Returned(TrendOf(metric, TrendValues(readings, metric)))

\* numerator / denominator of _calculate_autocorrelation
Correlation(values, lag, mean, denominator) ==
    IF FIsZero(denominator) THEN FZero
    ELSE FDiv(FSum([i \in 1..(Len(values) - lag) |->
                       FMul(FSub(values[i], mean), FSub(values[i + lag], mean))],
                   Len(values) - lag),
              denominator)

AutocorrelationAbout(values, lag, mean) ==
    IF Known(mean) THEN Correlation(values, lag, mean, SumSqDev(values, mean)) ELSE mean

\* _calculate_autocorrelation
calculate_autocorrelation(values, lag) ==
    IF Len(values) <= lag THEN FZero
    ELSE AutocorrelationAbout(values, lag, FMean(values))

\* an amplitude that divides by n - 1, as the sample deviation does
calculate_amplitude_sample(values, period) ==
    IF Len(values) < period * 2 THEN FZero
    ELSE FSqrt(FDiv(SumSqDev(values, FMean(values)), FInt(Len(values) - 1)))

\* _calculate_amplitude
calculate_amplitude(values, period) ==
    IF Len(values) < period * 2 THEN FZero
    ELSE FSqrt(FDiv(SumSqDev(values, FMean(values)), FInt(Len(values))))

\* the values detect_seasonality extracts: a metric that is none of
\* temperature, humidity and pressure reads wind_speed
SeasonValues(readings, metric) ==
    [i \in 1..Len(readings) |->
        IF metric = "temperature" THEN readings[i].temperature
        ELSE IF metric = "humidity" THEN FInt(readings[i].humidity)
        ELSE IF metric = "pressure" THEN readings[i].pressure
        ELSE readings[i].wind_speed]

\* a pass that lets a later period of equal correlation replace the best
BetterPeriodOrEqual(best, period, correlation) ==
    IF FGe(FAbs(correlation), FAbs(best.correlation))
    THEN [period |-> Some(period), correlation |-> correlation]
    ELSE best

\* one pass of the loop of detect_seasonality
BetterPeriod(best, period, correlation) ==
    IF FGt(FAbs(correlation), FAbs(best.correlation))
    THEN [period |-> Some(period), correlation |-> correlation]
    ELSE best

\* the loop of detect_seasonality over the periods lo .. hi in ascending
\* order, from the best period and correlation found below lo
RECURSIVE ScanPeriods(_, _, _, _)
ScanPeriods(values, lo, hi, best) ==
    IF lo > hi THEN best
    ELSE IF lo = hi THEN BetterPeriod(best, lo, calculate_autocorrelation(values, lo))
    ELSE LET first == ScanPeriods(values, lo, (lo + hi) \div 2, best)
         IN  IF Known(first) THEN ScanPeriods(values, (lo + hi) \div 2 + 1, hi, first)
             ELSE first

\* range(6, min(48, len(values) // 2))
BestPeriod(values) ==
    ScanPeriods(values, MinPeriod, MinOf2(MaxPeriod, Len(values) \div 2) - 1,
                [period |-> None, correlation |-> FZero])

\* the SeasonalAnalysis that detect_seasonality returns
SeasonalResult(metric, values, best, pattern_detected) ==
    IF pattern_detected
    THEN [metric |-> metric,
          period_hours |-> best.period,
          amplitude |-> Some(calculate_amplitude(values, best.period[1])),
          pattern_detected |-> TRUE,
          description |-> <<"Detected", best.period[1], "-hour cycle with correlation",
                            FFormat2(best.correlation)>>]
    ELSE [metric |-> metric,
          period_hours |-> None,
          amplitude |-> None,
          pattern_detected |-> FALSE,
          description |-> <<"No significant seasonal pattern detected">>]

SeasonalBest(metric, values, best) ==
    SeasonalResult(metric, values, best, FGt(FAbs(best.correlation), FDec(3, 10)))

\* a detect_seasonality that rejects an unknown metric name before it counts
\* the readings
detect_seasonality_strict(readings, metric) ==
    IF metric \notin SupportedMetrics
    THEN Raised(<<"Unsupported metric", metric>>)
    ELSE IF Len(readings) < MinSeasonalReadings
    THEN Returned([metric |-> metric,
                   period_hours |-> None,
                   amplitude |-> None,
                   pattern_detected |-> FALSE,
                   description |-> <<"Insufficient data for seasonal analysis">>])
    ELSE Returned(SeasonalBest(metric, SeasonValues(readings, metric),
                               BestPeriod(SeasonValues(readings, metric))))

detect_seasonality(readings, metric) ==
    IF Len(readings) < MinSeasonalReadings
    THEN Returned([metric |-> metric,
                   period_hours |-> None,
                   amplitude |-> None,
                   pattern_detected |-> FALSE,
                   description |-> <<"Insufficient data for seasonal analysis">>])
    ELSE Returned(SeasonalBest(metric, SeasonValues(readings, metric),
                               BestPeriod(SeasonValues(readings, metric))))

\* branches that take a humidity of exactly 60 for cloudy
ConditionFromAtLeast(avg_temp, humidity, random_factor) ==
    IF FGt(humidity, FInt(80)) /\ FGt(random_factor, FDec(3, 10))
    THEN (IF FGt(avg_temp, FInt(5)) THEN "rainy" ELSE "snowy")
    ELSE IF FGt(humidity, FInt(70)) /\ FGt(random_factor, FDec(5, 10))
    THEN (IF FGt(avg_temp, FInt(15)) THEN "stormy" ELSE "rainy")
    ELSE IF FGe(humidity, FInt(60)) \/ FGt(random_factor, FDec(7, 10))
    THEN "cloudy"
    ELSE "sunny"

\* the branches of _predict_condition
ConditionFrom(avg_temp, humidity, random_factor) ==
    IF FGt(humidity, FInt(80)) /\ FGt(random_factor, FDec(3, 10))
    THEN (IF FGt(avg_temp, FInt(5)) THEN "rainy" ELSE "snowy")
    ELSE IF FGt(humidity, FInt(70)) /\ FGt(random_factor, FDec(5, 10))
    THEN (IF FGt(avg_temp, FInt(15)) THEN "stormy" ELSE "rainy")
    ELSE IF FGt(humidity, FInt(60)) \/ FGt(random_factor, FDec(7, 10))
    THEN "cloudy"
    ELSE "sunny"

\* _predict_condition
predict_condition(high_temp, low_temp, humidity, day_offset) ==
    ConditionFrom(FDiv(FAdd(high_temp, low_temp), FInt(2)), humidity,
                  FDiv(FInt((day_offset * 17) % 100), FInt(100)))

base_prob(condition) ==
    IF condition = "sunny" THEN 5
    ELSE IF condition = "cloudy" THEN 20
    ELSE IF condition = "rainy" THEN 80
    ELSE IF condition = "stormy" THEN 95
    ELSE IF condition = "snowy" THEN 85
    ELSE 10

\* an adjustment whose bonus starts at the humidity of the rain branch
AdjustProbAboveEighty(prob, humidity) ==
    IF FGt(humidity, FInt(80)) THEN prob + 10
    ELSE IF FLt(humidity, FInt(40)) THEN prob - 10
    ELSE prob

\* the humidity adjustment of _calculate_precipitation_probability
AdjustProb(prob, humidity) ==
    IF FGt(humidity, FInt(70)) THEN prob + 10
    ELSE IF FLt(humidity, FInt(40)) THEN prob - 10
    ELSE prob

\* a probability that is not clamped to 0..100
unclamped_precipitation_probability(condition, humidity) ==
    AdjustProb(base_prob(condition), humidity)

\* _calculate_precipitation_probability
calculate_precipitation_probability(condition, humidity) ==
    MaxOf2(0, MinOf2(100, AdjustProb(base_prob(condition), humidity)))

condition_desc(condition) ==
    IF condition = "sunny" THEN "Clear and sunny"
    ELSE IF condition = "cloudy" THEN "Partly cloudy"
    ELSE IF condition = "rainy" THEN "Rain expected"
    ELSE IF condition = "stormy" THEN "Thunderstorms likely"
    ELSE IF condition = "snowy" THEN "Snow expected"
    ELSE "Variable conditions"

\* _generate_description: the three sentences of the text
generate_description(condition, temp, precip_prob) ==
    <<condition_desc(condition),
      IF FGt(temp, FInt(30)) THEN "Very warm temperatures"
      ELSE IF FGt(temp, FInt(20)) THEN "Pleasant temperatures"
      ELSE IF FGt(temp, FInt(10)) THEN "Cool temperatures"
      ELSE "Cold temperatures",
      IF precip_prob > 70 THEN "High chance of precipitation"
      ELSE IF precip_prob > 30 THEN "Possible precipitation"
      ELSE "Low chance of precipitation">>

\* The WeatherForecastResponse of one day.  high_temperature and
\* low_temperature are in tenths of a degree.
ForecastResponse(forecast_date, high_temp, low_temp, forecast_humidity, condition, precip_prob) ==
    [date |-> forecast_date,
     high_temperature |-> FRound1(high_temp),
     low_temperature |-> FRound1(low_temp),
     condition |-> condition,
     precipitation_probability |-> precip_prob,
     humidity |-> FTrunc(forecast_humidity),
     description |-> generate_description(condition, high_temp, precip_prob)]

\* one pass of the loop of generate_forecast from the condition on
ForecastCondition(forecast_date, high_temp, low_temp, forecast_humidity, condition) ==
    ForecastResponse(forecast_date, high_temp, low_temp, forecast_humidity, condition,
                     calculate_precipitation_probability(condition, forecast_humidity))

\* ... from high_temp, low_temp and forecast_humidity on
ForecastTemps(forecast_date, day, high_temp, low_temp, forecast_humidity) ==
    IF Known(high_temp) /\ Known(low_temp) /\ Known(forecast_humidity)
    THEN ForecastCondition(forecast_date, high_temp, low_temp, forecast_humidity,
                           predict_condition(high_temp, low_temp, forecast_humidity, day))
    ELSE high_temp

\* ... from base_temp + temp_change + seasonal_temp and daily_temp_range/2 on
ForecastRange(forecast_date, day, trended, half_range, forecast_humidity) ==
    ForecastTemps(forecast_date, day, FAdd(trended, half_range), FSub(trended, half_range),
                  forecast_humidity)

\* ... from seasonal_temp on: recent is historical_data[-24:], whose
\* humidities are Python ints with an exact sum
ForecastSeason(recent, temp_trend, humidity_trend, forecast_date, day, seasonal_temp) ==
    ForecastRange(forecast_date, day,
        FAdd(FAdd(FMean([i \in 1..Len(recent) |-> recent[i].temperature]),
                  FMul(FMul(temp_trend, FInt(day)), FDec(5, 10))),
             seasonal_temp),
        FDiv(FAdd(FInt(8), FAbs(seasonal_temp)), FInt(2)),
        FMax(FInt(20),
             FMin(FInt(100),
                  FAdd(FDiv(FInt(ISum([i \in 1..Len(recent) |-> recent[i].humidity],
                                      Len(recent))),
                            FInt(Len(recent))),
                       FMul(FMul(humidity_trend, FInt(day)), FDec(3, 10))))))

\* a pass whose day offset counts from a fixed day instead of from the day
\* of the call
ForecastEntryFromEpoch(historical_data, temp_trend, humidity_trend, day, base_date) ==
    ForecastSeason(LastK(historical_data, BaseWindow), temp_trend, humidity_trend,
                   base_date + day, day + base_date, FMul(FInt(3), SinYear(day + base_date)))

\* one pass of the loop of generate_forecast
ForecastEntry(historical_data, temp_trend, humidity_trend, day, base_date) ==
    ForecastSeason(LastK(historical_data, BaseWindow), temp_trend, humidity_trend,
                   base_date + day, day, FMul(FInt(3), SinYear(day)))

\* the loop of generate_forecast
ForecastDays(historical_data, days, base_date, temp_trend, humidity_trend) ==
    IF Known(temp_trend) /\ Known(humidity_trend)
    THEN [d \in 1..days |->
             ForecastEntry(historical_data, temp_trend, humidity_trend, d - 1, base_date)]
    ELSE <<>>

\* generate_forecast from the readings the trends are computed on
ForecastTrends(historical_data, days, base_date, recent) ==
    ForecastDays(historical_data, days, base_date,
                 calculate_trend([i \in 1..Len(recent) |-> recent[i].temperature]),
                 calculate_trend([i \in 1..Len(recent) |-> FInt(recent[i].humidity)]))

\* generate_forecast; now is the day datetime.now() falls on
generate_forecast(historical_data, days, now) ==
    IF Len(historical_data) < MinForecastReadings
    THEN Raised(<<"Insufficient historical data for forecast">>)
    ELSE Returned(ForecastTrends(historical_data, days, now,
                                 LastK(historical_data, TrendWindow)))

\* _calculate_std
calculate_std(values) ==
    IF Len(values) < 2 THEN FZero
    ELSE FSqrt(FDiv(SumSqDev(values, FMean(values)), FInt(Len(values) - 1)))

\* min(values) and max(values) of a non-empty list
RECURSIVE FMinRange(_, _, _)
FMinRange(t, lo, hi) ==
    IF lo = hi THEN t[lo]
    ELSE FMin(FMinRange(t, lo, (lo + hi) \div 2), FMinRange(t, (lo + hi) \div 2 + 1, hi))
RECURSIVE FMaxRange(_, _, _)
FMaxRange(t, lo, hi) ==
    IF lo = hi THEN t[lo]
    ELSE FMax(FMaxRange(t, lo, (lo + hi) \div 2), FMaxRange(t, (lo + hi) \div 2 + 1, hi))

\* the values of one of the four metrics that calculate_statistics
\* summarises alike
StatValues(readings, metric) ==
    [i \in 1..Len(readings) |->
        IF metric = "temperature" THEN readings[i].temperature
        ELSE IF metric = "humidity" THEN FInt(readings[i].humidity)
        ELSE IF metric = "pressure" THEN readings[i].pressure
        ELSE readings[i].wind_speed]

\* avg, min, max and std of one metric
MetricStats(values) ==
    [avg |-> FMean(values),
     min |-> FMinRange(values, 1, Len(values)),
     max |-> FMaxRange(values, 1, Len(values)),
     std |-> calculate_std(values)]

\* total, avg and max of the precipitations
PrecipitationStats(precipitations) ==
    [total |-> FSum(precipitations, Len(precipitations)),
     avg |-> FMean(precipitations),
     max |-> FMaxRange(precipitations, 1, Len(precipitations))]

\* condition_counts: every condition that occurs, with its count
condition_counts(readings) ==
    [c \in {readings[i].condition : i \in 1..Len(readings)} |->
        Cardinality({i \in 1..Len(readings) : readings[i].condition = c})]

\* where condition c is first read
FirstAt(readings, c) ==
    CHOOSE i \in 1..Len(readings) :
        /\ readings[i].condition = c
        /\ \A j \in 1..(i - 1) : readings[j].condition # c

\* a maximum that keeps the last of the largest counts
MostCommonLastSeen(readings, counts) ==
    CHOOSE c \in DOMAIN counts :
        \A d \in DOMAIN counts :
            \/ counts[d] < counts[c]
            \/ counts[d] = counts[c] /\ FirstAt(readings, c) >= FirstAt(readings, d)

\* max(condition_counts, key=condition_counts.get): a dict keeps its keys in
\* the order of their first insertion, and max keeps the first of the largest
MostCommon(readings, counts) ==
    CHOOSE c \in DOMAIN counts :
        \A d \in DOMAIN counts :
            \/ counts[d] < counts[c]
            \/ counts[d] = counts[c] /\ FirstAt(readings, c) <= FirstAt(readings, d)

most_common_condition(readings) == MostCommon(readings, condition_counts(readings))

\* the dict that calculate_statistics returns, stats holding the summaries
\* of the four metrics
StatisticsResult(readings, stats) ==
    [period_hours |-> Len(readings),
     total_readings |-> Len(readings),
     temperature |-> stats["temperature"],
     humidity |-> stats["humidity"],
     pressure |-> stats["pressure"],
     wind_speed |-> stats["wind_speed"],
     precipitation |->
         PrecipitationStats([i \in 1..Len(readings) |-> readings[i].precipitation]),
     most_common_condition |-> most_common_condition(readings),
     condition_distribution |-> condition_counts(readings)]

\* calculate_statistics
calculate_statistics(readings) ==
    IF readings = <<>> THEN Returned(<<>>)
    ELSE Returned(StatisticsResult(readings,
             [m \in SupportedMetrics |-> MetricStats(StatValues(readings, m))]))

(***************************************************************************)
(* The state machine.  A caller holds a window of readings and the         *)
(* arguments of one engine call, and makes that call up to MaxCalls        *)
(* times; calls keeps what each call returned or raised, in order.  today  *)
(* is the day datetime.now() falls on, and Tick is midnight passing.  No   *)
(* operation of the engine assigns to a reading, to the list it is given   *)
(* or to a field of the service, so the actions leave window untouched.    *)
(* table is the weather_readings table, its rows in the order they were    *)
(* inserted; only the request handlers of SpecHandlers read or write it.   *)
(***************************************************************************)
VARIABLES window, request, today, calls, table
vars == <<window, request, today, calls, table>>

MaxDays == 7
MaxToday == 1
MaxCalls == 2

\* the metric names a caller may send: the supported ones and another
Metrics == SupportedMetrics \cup {"uv_index"}

\* the float nearest to k/10, as the JSON parser produces it
Tenths(k) == FDec(k, 10)

Clamp(lo, hi, v) == MaxOf2(lo, MinOf2(hi, v))

GenerateForecast ==
    /\ request.op = "forecast"
    /\ Len(calls) < MaxCalls
    /\ calls' = Append(calls, generate_forecast(window, request.days, today))
    /\ UNCHANGED <<window, request, today, table>>

AnalyzeTrend ==
    /\ request.op = "trend"
    /\ Len(calls) < MaxCalls
    /\ calls' = Append(calls, analyze_trend(window, request.metric))
    /\ UNCHANGED <<window, request, today, table>>

DetectSeasonality ==
    /\ request.op = "seasonality"
    /\ Len(calls) < MaxCalls
    /\ calls' = Append(calls, detect_seasonality(window, request.metric))
    /\ UNCHANGED <<window, request, today, table>>

CalculateStatistics ==
    /\ request.op = "statistics"
    /\ Len(calls) < MaxCalls
    /\ calls' = Append(calls, calculate_statistics(window))
    /\ UNCHANGED <<window, request, today, table>>

Tick ==
    /\ today < MaxToday
    /\ today' = today + 1
    /\ UNCHANGED <<window, request, calls, table>>

ForecastRequests == {[op |-> "forecast", days |-> d] : d \in 0..MaxDays}
TrendRequests == {[op |-> "trend", metric |-> m] : m \in Metrics}
SeasonRequests == {[op |-> "seasonality", metric |-> m] : m \in Metrics}
StatsRequests == {[op |-> "statistics"]}

(***************************************************************************)
(* Spec: every operation on windows around the minimum sample counts.      *)
(***************************************************************************)
GeneralLengths == {0, 1, 9, 10, 23, 24, 47, 48}

GeneralWindow(n) ==
    [i \in 1..n |->
        [temperature |-> Tenths(180 + ((i * 7) % 13)),
         humidity |-> 55 + ((i * 5) % 11),
         pressure |-> Tenths(10100 + ((i * 3) % 17)),
         wind_speed |-> Tenths((i * 11) % 23),
         precipitation |-> Tenths(i % 2),
         condition |-> IF i % 3 = 0 THEN "rainy" ELSE "sunny"]]

GeneralWindows == {GeneralWindow(n) : n \in GeneralLengths}

Init ==
    /\ window \in GeneralWindows
    /\ request \in ForecastRequests \cup TrendRequests \cup SeasonRequests \cup StatsRequests
    /\ today = 0
    /\ calls = <<>>
    /\ table = <<>>

Next ==
    \/ GenerateForecast
    \/ AnalyzeTrend
    \/ DetectSeasonality
    \/ CalculateStatistics
    \/ Tick

Spec == Init /\ [][Next]_vars

(***************************************************************************)
(* SpecForecast: generate_forecast on windows long enough to forecast      *)
(* from.  A window is described by its first temperature (in tenths) and   *)
(* humidity, their steps from one reading to the next, and an amount       *)
(* added to the humidity of the last reading.                              *)
(***************************************************************************)
ForecastProfiles ==
    {[t0 |-> 200, dt |-> 0, h0 |-> 60, dh |-> 0, last |-> 0],
     [t0 |-> 200, dt |-> 0, h0 |-> 60, dh |-> 0, last |-> 1],
     [t0 |-> 203, dt |-> 0, h0 |-> 0, dh |-> 0, last |-> 0],
     [t0 |-> 203, dt |-> 0, h0 |-> 100, dh |-> 0, last |-> 0],
     [t0 |-> -55, dt |-> 0, h0 |-> 90, dh |-> 0, last |-> 0],
     [t0 |-> 200, dt |-> 0, h0 |-> 75, dh |-> 0, last |-> 0],
     [t0 |-> 100, dt |-> 1, h0 |-> 75, dh |-> 0, last |-> 0],
     [t0 |-> 203, dt |-> -2, h0 |-> 50, dh |-> 1, last |-> 0],
     [t0 |-> 1, dt |-> 0, h0 |-> 39, dh |-> 0, last |-> 0],
     [t0 |-> 300, dt |-> 1, h0 |-> 100, dh |-> -2, last |-> 0]}

ForecastLengths == {MinForecastReadings, MinForecastReadings + 1, TrendWindow + 1}

ForecastWindow(p, n) ==
    [i \in 1..n |->
        [temperature |-> Tenths(p.t0 + p.dt * (i - 1)),
         humidity |-> Clamp(0, 100, p.h0 + p.dh * (i - 1) + (IF i = n THEN p.last ELSE 0)),
         pressure |-> Tenths(10132),
         wind_speed |-> Tenths(103),
         precipitation |-> FZero,
         condition |-> "sunny"]]

ForecastWindows == {ForecastWindow(p, n) : p \in ForecastProfiles, n \in ForecastLengths}

InitForecast ==
    /\ window \in ForecastWindows
    /\ request \in ForecastRequests
    /\ today = 0
    /\ calls = <<>>
    /\ table = <<>>

SpecForecast == InitForecast /\ [][GenerateForecast]_vars

(***************************************************************************)
(* SpecTrend: analyze_trend on windows whose temperature and humidity      *)
(* move by a fixed step from one reading to the next, or not at all, and   *)
(* on windows that scatter around no line.                                 *)
(***************************************************************************)
LinearProfiles ==
    {[t0 |-> 10, dt |-> 10, h0 |-> 50, dh |-> 1],
     [t0 |-> 203, dt |-> 10, h0 |-> 50, dh |-> -1],
     [t0 |-> 203, dt |-> -10, h0 |-> 60, dh |-> 0],
     [t0 |-> 103, dt |-> 10, h0 |-> 20, dh |-> 2],
     [t0 |-> -55, dt |-> 15, h0 |-> 90, dh |-> -3],
     [t0 |-> 200, dt |-> 1, h0 |-> 0, dh |-> 5],
     [t0 |-> 1, dt |-> 0, h0 |-> 60, dh |-> 0],
     [t0 |-> 203, dt |-> 0, h0 |-> 61, dh |-> 0],
     [t0 |-> 200, dt |-> 0, h0 |-> 100, dh |-> 0]}

LinearLengths == {MinTrendReadings, MinTrendReadings + 1, MinTrendReadings + 2}

LinearWindow(p, n) ==
    [i \in 1..n |->
        [temperature |-> Tenths(p.t0 + p.dt * (i - 1)),
         humidity |-> p.h0 + p.dh * (i - 1),
         pressure |-> Tenths(10132),
         wind_speed |-> Tenths(1),
         precipitation |-> FZero,
         condition |-> "sunny"]]

LinearWindows == {LinearWindow(p, n) : p \in LinearProfiles, n \in LinearLengths}

ScatteredWindows == {GeneralWindow(n) : n \in LinearLengths}

InitTrend ==
    /\ window \in LinearWindows \cup ScatteredWindows
    /\ request \in TrendRequests
    /\ today = 0
    /\ calls = <<>>
    /\ table = <<>>

SpecTrend == InitTrend /\ [][AnalyzeTrend]_vars

(***************************************************************************)
(* SpecSeason: detect_seasonality on a sinusoid of period P sampled once   *)
(* per reading: temperature 20 + 5 * sin(2 * pi * i / P) to one decimal,   *)
(* as a sensor reports it.  WaveTenths[P - MinPeriod + 1] is one period,   *)
(* in tenths.                                                              *)
(***************************************************************************)
WaveTenths ==
    <<<<200, 243, 243, 200, 157, 157>>,
      <<200, 239, 249, 222, 178, 151, 161>>,
      <<200, 235, 250, 235, 200, 165, 150, 165>>,
      <<200, 232, 249, 243, 217, 183, 157, 151, 168>>,
      <<200, 229, 248, 248, 229, 200, 171, 152, 152, 171>>,
      <<200, 227, 245, 249, 238, 214, 186, 162, 151, 155, 173>>,
      <<200, 225, 243, 250, 243, 225, 200, 175, 157, 150, 157, 175>>>>

WavePeriods == MinPeriod..(MinPeriod + Len(WaveTenths) - 1)

\* the i-th sample of the sinusoid of period P
WaveAt(P, i) == Tenths(WaveTenths[P - MinPeriod + 1][((i - 1) % P) + 1])

WaveWindow(P, n) ==
    [i \in 1..n |->
        [temperature |-> WaveAt(P, i),
         humidity |-> 60,
         pressure |-> Tenths(10132),
         wind_speed |-> Tenths(103),
         precipitation |-> FZero,
         condition |-> "sunny"]]

WaveWindows == {WaveWindow(P, MinSeasonalReadings) : P \in WavePeriods}

\* A flat temperature of 20 with three readings of 21, six hours apart, and
\* three of 19, seven hours apart: the autocorrelations at lags 6 and 7 are
\* both 1/3, and smaller in magnitude at every other lag.
SpikesUp == {1, 7, 13}
SpikesDown == {25, 32, 39}

SpikeWindow(n) ==
    [i \in 1..n |->
        [temperature |-> Tenths(IF i \in SpikesUp THEN 210
                                ELSE IF i \in SpikesDown THEN 190 ELSE 200),
         humidity |-> 60,
         pressure |-> Tenths(10132),
         wind_speed |-> Tenths(103),
         precipitation |-> FZero,
         condition |-> "sunny"]]

InitSeason ==
    /\ window \in WaveWindows \cup {SpikeWindow(MinSeasonalReadings)}
    /\ request \in SeasonRequests
    /\ today = 0
    /\ calls = <<>>
    /\ table = <<>>

SpecSeason == InitSeason /\ [][DetectSeasonality]_vars

(***************************************************************************)
(* SpecStats: calculate_statistics on every window of up to MaxStatsLen    *)
(* readings drawn from four.                                               *)
(***************************************************************************)
MaxStatsLen == 3

StatsReadings ==
    {[temperature |-> Tenths(1), humidity |-> 60, pressure |-> Tenths(10132),
      wind_speed |-> Tenths(1), precipitation |-> FZero, condition |-> "sunny"],
     [temperature |-> Tenths(203), humidity |-> 61, pressure |-> Tenths(10132),
      wind_speed |-> Tenths(103), precipitation |-> Tenths(5), condition |-> "rainy"],
     [temperature |-> Tenths(-55), humidity |-> 100, pressure |-> Tenths(9900),
      wind_speed |-> FZero, precipitation |-> FZero, condition |-> "cloudy"],
     [temperature |-> Tenths(1), humidity |-> 20, pressure |-> Tenths(10132),
      wind_speed |-> Tenths(1), precipitation |-> FZero, condition |-> "sunny"]}

StatsWindows == UNION {[1..n -> StatsReadings] : n \in 0..MaxStatsLen}

InitStats ==
    /\ window \in StatsWindows
    /\ request \in StatsRequests
    /\ today = 0
    /\ calls = <<>>
    /\ table = <<>>

SpecStats == InitStats /\ [][CalculateStatistics]_vars

(***************************************************************************)
(* SpecHandlers: the request handlers of main.py that store a reading and  *)
(* that query the table for the forecast and the trend analysis.  A row    *)
(* is stamped with the time of its insertion (the column's default,        *)
(* func.now()), counted here in hours; a handler runs in the hour of the   *)
(* latest insertion.  Timestamps are distinct, so ORDER BY leaves no       *)
(* choice.  window is the list a handler last passed to the engine.        *)
(***************************************************************************)
MaxRows == 50

ForecastLimit == 168
ForecastHandlerMin == 24
TrendHours == 48
TrendHandlerMin == 10

\* the row the client posts in hour t
PostedRow(t) ==
    [timestamp |-> t,
     temperature |-> Tenths(150 + ((t * 7) % 90)),
     humidity |-> 40 + ((t * 11) % 50),
     pressure |-> Tenths(10132),
     wind_speed |-> Tenths(103),
     precipitation |-> FZero,
     condition |-> "sunny"]

\* how many of rows come before rows[i] in ascending timestamp order
RankAsc(rows, i) ==
    Cardinality({j \in 1..Len(rows) : rows[j].timestamp < rows[i].timestamp})

\* ORDER BY timestamp ASC
OrderByTimestampAsc(rows) ==
    [k \in 1..Len(rows) |->
        rows[CHOOSE i \in 1..Len(rows) : RankAsc(rows, i) = k - 1]]

\* ORDER BY timestamp DESC
OrderByTimestampDesc(rows) ==
    [k \in 1..Len(rows) |->
        rows[CHOOSE i \in 1..Len(rows) : RankAsc(rows, i) = Len(rows) - k]]

\* LIMIT k
Limit(rows, k) == IF Len(rows) <= k THEN rows ELSE SubSeq(rows, 1, k)

\* WHERE timestamp >= cutoff, the rows kept in their order
RECURSIVE FilterSince(_, _)
FilterSince(rows, cutoff) ==
    IF rows = <<>> THEN <<>>
    ELSE IF Head(rows).timestamp >= cutoff
    THEN <<Head(rows)>> \o FilterSince(Tail(rows), cutoff)
    ELSE FilterSince(Tail(rows), cutoff)

\* create_weather_reading
PostWeather ==
    /\ Len(table) < MaxRows
    /\ table' = Append(table, PostedRow(Len(table) + 1))
    /\ UNCHANGED <<window, request, today, calls>>

\* the query of get_weather_forecast
ForecastQuery(rows) == Limit(OrderByTimestampDesc(rows), ForecastLimit)

\* get_weather_forecast from recent_data on
ForecastHandler(recent_data) ==
    IF Len(recent_data) < ForecastHandlerMin
    THEN /\ calls' = Append(calls, Raised(<<"Insufficient data for forecast generation">>))
         /\ window' = window
    ELSE /\ calls' = Append(calls, generate_forecast(recent_data, request.days, today))
         /\ window' = recent_data

GetWeatherForecast ==
    /\ request.op = "forecast"
    /\ Len(calls) < MaxCalls
    /\ ForecastHandler(ForecastQuery(table))
    /\ UNCHANGED <<request, today, table>>

\* the query of get_trend_analysis, in hour now
TrendQuery(rows, now) == OrderByTimestampAsc(FilterSince(rows, now - TrendHours))

\* get_trend_analysis from readings on
TrendHandler(readings) ==
    IF Len(readings) < TrendHandlerMin
    THEN /\ calls' = Append(calls, Raised(<<"Insufficient data for trend analysis">>))
         /\ window' = window
    ELSE /\ calls' = Append(calls, analyze_trend(readings, request.metric))
         /\ window' = readings

GetTrendAnalysis ==
    /\ request.op = "trend"
    /\ Len(calls) < MaxCalls
    /\ TrendHandler(TrendQuery(table, Len(table)))
    /\ UNCHANGED <<request, today, table>>

HandlerRequests ==
    {[op |-> "forecast", days |-> 1], [op |-> "trend", metric |-> "temperature"]}

InitHandlers ==
    /\ window = <<>>
    /\ request \in HandlerRequests
    /\ today = 0
    /\ calls = <<>>
    /\ table = <<>>

NextHandlers ==
    \/ PostWeather
    \/ GetWeatherForecast
    \/ GetTrendAnalysis

SpecHandlers == InitHandlers /\ [][NextHandlers]_vars

(***************************************************************************)
(* The properties.                                                         *)
(***************************************************************************)
IsForecast(c) == request.op = "forecast" /\ HasReturned(calls[c])
IsTrend(c) == request.op = "trend" /\ HasReturned(calls[c])
IsSeasonal(c) == request.op = "seasonality" /\ HasReturned(calls[c])
IsStatistics(c) == request.op = "statistics" /\ HasReturned(calls[c])

\* C1: on a window of at least 24 readings generate_forecast returns exactly
\* `days` entries, and in every entry low_temperature <= high_temperature,
\* 20 <= humidity <= 100 and 0 <= precipitation_probability <= 100.
C1_ForecastEntriesInBounds ==
    \A c \in DOMAIN calls :
        (request.op = "forecast" /\ Len(window) >= MinForecastReadings) =>
            /\ HasReturned(calls[c])
            /\ Len(calls[c].returned) = request.days
            /\ \A d \in 1..Len(calls[c].returned) :
                   /\ calls[c].returned[d].low_temperature
                          <= calls[c].returned[d].high_temperature
                   /\ 20 <= calls[c].returned[d].humidity
                   /\ calls[c].returned[d].humidity <= 100
                   /\ 0 <= calls[c].returned[d].precipitation_probability
                   /\ calls[c].returned[d].precipitation_probability <= 100

\* a forecast over the longest horizon with a stormy day whose probability
\* reached the upper clamp
C1_StormyDayAtFullHorizon ==
    \E c \in DOMAIN calls :
        /\ IsForecast(c)
        /\ Len(calls[c].returned) = MaxDays
        /\ \E d \in 1..Len(calls[c].returned) :
               /\ calls[c].returned[d].condition = "stormy"
               /\ calls[c].returned[d].precipitation_probability = 100

\* C2: analyze_trend fails for lack of data exactly when it is given fewer
\* than 10 readings, whatever the metric name, and generate_forecast exactly
\* when it is given fewer than 24, whatever the horizon; with 24 or more
\* readings generate_forecast returns.
C2_MinimumSamples ==
    \A c \in DOMAIN calls :
        /\ request.op = "trend" =>
               (calls[c] = Raised(<<"Insufficient data for trend analysis">>)
                    <=> Len(window) < MinTrendReadings)
        /\ request.op = "forecast" =>
               /\ calls[c] = Raised(<<"Insufficient historical data for forecast">>)
                      <=> Len(window) < MinForecastReadings
               /\ Len(window) >= MinForecastReadings => HasReturned(calls[c])

\* too few readings were refused: a trend of an unknown metric, and a
\* forecast over no days
C2_ShortWindowRefused ==
    \E c \in DOMAIN calls :
        /\ HasRaised(calls[c])
        /\ \/ /\ request.op = "trend"
              /\ request.metric \notin SupportedMetrics
              /\ Len(window) = MinTrendReadings - 1
           \/ /\ request.op = "forecast"
              /\ request.days = 0
              /\ Len(window) = MinForecastReadings - 1

\* C3: with enough readings (10 for analyze_trend, 48 for
\* detect_seasonality) a metric name outside temperature, humidity, pressure
\* and wind_speed makes the call fail with an unsupported-metric error.
C3_UnsupportedMetricRejected ==
    \A c \in DOMAIN calls :
        (/\ request.op \in {"trend", "seasonality"}
         /\ request.metric \notin SupportedMetrics
         /\ \/ request.op = "trend" /\ Len(window) >= MinTrendReadings
            \/ request.op = "seasonality" /\ Len(window) >= MinSeasonalReadings)
        => calls[c] = Raised(<<"Unsupported metric", request.metric>>)

\* C4: detect_seasonality on fewer than 48 readings returns, for every
\* metric name, a result with pattern_detected false, no period, no
\* amplitude and the description that says the data is insufficient.
C4_ShortSeriesDegrades ==
    \A c \in DOMAIN calls :
        (request.op = "seasonality" /\ Len(window) < MinSeasonalReadings) =>
            calls[c] = Returned([metric |-> request.metric,
                                 period_hours |-> None,
                                 amplitude |-> None,
                                 pattern_detected |-> FALSE,
                                 description |->
                                     <<"Insufficient data for seasonal analysis">>])

\* one reading short of the minimum and an unknown metric name: a result
\* all the same
C4_ShortUnknownMetricReturned ==
    \E c \in DOMAIN calls :
        /\ IsSeasonal(c)
        /\ Len(window) = MinSeasonalReadings - 1
        /\ request.metric \notin SupportedMetrics
        /\ ~calls[c].returned.pattern_detected

\* the values are the sampled sinusoid of period P
IsWave(values, P) == \A i \in 1..Len(values) : values[i] = WaveAt(P, i)

\* C5: on a sinusoid of period P, 6 <= P < min(48, n/2), of n >= 4P values,
\* detect_seasonality detects a pattern whose period is within one step
\* of P.
C5_WavePeriodRecovered ==
    \A c \in DOMAIN calls :
        \A P \in WavePeriods :
            (/\ request.op = "seasonality"
             /\ P < MinOf2(MaxPeriod, Len(window) \div 2)
             /\ Len(window) >= 4 * P
             /\ IsWave(SeasonValues(window, request.metric), P))
            => /\ HasReturned(calls[c])
               /\ calls[c].returned.pattern_detected
               /\ calls[c].returned.period_hours # None
               /\ calls[c].returned.period_hours[1] \in (P - 1)..(P + 1)

\* the series analyze_trend reads off the window
Series == TrendValues(window, request.metric)

\* the first value of the series and its step, in tenths
FirstTenths == FRound1(Series[1])
StepTenths == FRound1(Series[2]) - FRound1(Series[1])

\* the series is a + b * i with a and b in tenths, b # 0, each value the
\* float nearest to its decimal
IsLinear ==
    /\ StepTenths # 0
    /\ \A i \in 1..Len(Series) : Series[i] = Tenths(FirstTenths + StepTenths * (i - 1))

\* |x - y| <= 1e-9
Near(x, y) == FLe(FAbs(FSub(x, y)), FDec(1, 1000000000))

DirectionOfStep == IF StepTenths > 0 THEN "increasing" ELSE "decreasing"

C7_ConstantSeriesFlat ==
    \A c \in DOMAIN calls :
        (IsTrend(c) /\ \A i \in 1..Len(Series) : Series[i] = Series[1]) =>
            /\ FIsZero(calls[c].returned.slope)
            /\ FIsZero(calls[c].returned.strength)
            /\ calls[c].returned.direction = "stable"

\* C8: on a non-empty window calculate_statistics returns, for each of the
\* four metrics, min <= avg <= max and std >= 0, and std = 0 when the window
\* has one reading or the metric has the same value in all of them.
C8_StatisticsOrdered ==
    \A c \in DOMAIN calls :
        (IsStatistics(c) /\ window # <<>>) =>
            \A m \in SupportedMetrics :
                /\ FLe(calls[c].returned[m].min, calls[c].returned[m].avg)
                /\ FLe(calls[c].returned[m].avg, calls[c].returned[m].max)
                /\ FGe(calls[c].returned[m].std, FZero)
                /\ (\/ Len(window) = 1
                    \/ \A i \in 1..Len(window) :
                           StatValues(window, m)[i] = StatValues(window, m)[1])
                   => FIsZero(calls[c].returned[m].std)

StripDates(out) ==
    IF request.op = "forecast" /\ HasReturned(out)
    THEN Returned([d \in 1..Len(out.returned) |->
                      [f \in DOMAIN out.returned[d] \ {"date"} |-> out.returned[d][f]]])
    ELSE out

RecentHumidity ==
    ISum([i \in 1..Len(LastK(window, BaseWindow)) |-> LastK(window, BaseWindow)[i].humidity],
         Len(LastK(window, BaseWindow)))
RecentCount == Len(LastK(window, BaseWindow))

\* C10, as stated: the humidity of forecast day 0 is the mean humidity of
\* the last 24 readings clamped to [20, 100], and its condition is sunny
\* when that humidity is <= 60 and cloudy when it is > 60.
C10_DayZeroIsMean ==
    \A c \in DOMAIN calls :
        (IsForecast(c) /\ request.days >= 1) =>
            /\ calls[c].returned[1].humidity * RecentCount
                   = Clamp(20 * RecentCount, 100 * RecentCount, RecentHumidity)
            /\ calls[c].returned[1].humidity <= 60 =>
                   calls[c].returned[1].condition = "sunny"
            /\ calls[c].returned[1].humidity > 60 =>
                   calls[c].returned[1].condition = "cloudy"

\* C10, amended: the humidity of forecast day 0 is the mean humidity of the
\* last 24 readings clamped to [20, 100] and cut to an integer, and its
\* condition is cloudy when the clamped mean, before it is cut, is > 60 and
\* sunny otherwise; 24 readings at temperature 20 and humidity 60 give
\* humidity 60 and sunny.
C10_DayZeroIsTruncatedMean ==
    \A c \in DOMAIN calls :
        (IsForecast(c) /\ request.days >= 1) =>
            /\ calls[c].returned[1].humidity
                   = Clamp(20, 100, RecentHumidity \div RecentCount)
            /\ calls[c].returned[1].condition
                   = IF Clamp(20 * RecentCount, 100 * RecentCount, RecentHumidity)
                            > 60 * RecentCount
                     THEN "cloudy" ELSE "sunny"
            /\ (/\ Len(window) = 24
                /\ \A i \in 1..Len(window) :
                       window[i].temperature = FInt(20) /\ window[i].humidity = 60)
               => /\ calls[c].returned[1].humidity = 60
                  /\ calls[c].returned[1].condition = "sunny"

\* a mean humidity just above 60: day 0 reports 60 and is cloudy
C10_CloudyAtSixty ==
    \E c \in DOMAIN calls :
        /\ IsForecast(c)
        /\ request.days >= 1
        /\ RecentHumidity % RecentCount # 0
        /\ calls[c].returned[1].humidity = 60
        /\ calls[c].returned[1].condition = "cloudy"

\* C11: for every supported metric the result of analyze_trend on 10 or more
\* readings has 0 <= strength <= 1 and confidence = min(95, strength * 100),
\* so 0 <= confidence <= 95.
C11_StrengthAndConfidenceBounded ==
    \A c \in DOMAIN calls :
        (request.op = "trend" /\ request.metric \in SupportedMetrics
             /\ Len(window) >= MinTrendReadings) =>
            /\ HasReturned(calls[c])
            /\ FLe(FZero, calls[c].returned.strength)
            /\ FLe(calls[c].returned.strength, FInt(1))
            /\ FEq(calls[c].returned.confidence,
                   FMin(FInt(95), FMul(calls[c].returned.strength, FInt(100))))
            /\ FLe(FZero, calls[c].returned.confidence)
            /\ FLe(calls[c].returned.confidence, FInt(95))

\* a trend of middling strength, whose confidence stays under the cap
C11_MiddlingStrength ==
    \E c \in DOMAIN calls :
        /\ IsTrend(c)
        /\ FLt(FZero, calls[c].returned.strength)
        /\ FLt(calls[c].returned.strength, FDec(95, 100))
        /\ FLt(FZero, calls[c].returned.confidence)
        /\ FLt(calls[c].returned.confidence, FInt(95))

\* the lags detect_seasonality scans, and the magnitude of the
\* autocorrelation of the requested metric at each of them
ScanLags == MinPeriod..(MinOf2(MaxPeriod, Len(window) \div 2) - 1)
LagMagnitudes ==
    LET values == SeasonValues(window, request.metric)
        mean == FMean(values)
        denominator == SumSqDev(values, mean)
    IN  [l \in ScanLags |-> FAbs(Correlation(values, l, mean, denominator))]

\* the smallest of the lags in mag whose magnitude is the largest
FirstLargest(mag) ==
    CHOOSE l \in DOMAIN mag :
        \A k \in DOMAIN mag : FLe(mag[k], mag[l]) /\ (k < l => FLt(mag[k], mag[l]))

\* C12: on 48 or more values detect_seasonality reports a pattern exactly
\* when the largest magnitude of the autocorrelation over the lags
\* 6 .. min(48, n div 2) - 1 is above 0.3, and then reports the smallest lag
\* of that magnitude; a series whose autocorrelation is 0 at every lag is
\* reported as no pattern.
C12_LargestMagnitudeFirstLag ==
    (request.op = "seasonality" /\ Len(window) >= MinSeasonalReadings /\ calls # <<>>) =>
        LET mag == LagMagnitudes
            top == FirstLargest(mag)
        IN  \A c \in DOMAIN calls :
                /\ HasReturned(calls[c])
                /\ calls[c].returned.pattern_detected <=> FGt(mag[top], FDec(3, 10))
                /\ calls[c].returned.pattern_detected =>
                       calls[c].returned.period_hours = Some(top)
                /\ (\A l \in ScanLags : FIsZero(mag[l])) =>
                       ~calls[c].returned.pattern_detected

\* two lags tie at the largest magnitude, above 0.3, and the smaller one is
\* reported
C12_TieTakesFirstLag ==
    \E c \in DOMAIN calls :
        /\ IsSeasonal(c)
        /\ calls[c].returned.pattern_detected
        /\ calls[c].returned.period_hours = Some(MinPeriod)
        /\ FEq(FAbs(calculate_autocorrelation(SeasonValues(window, request.metric),
                                              MinPeriod)),
               FAbs(calculate_autocorrelation(SeasonValues(window, request.metric),
                                              MinPeriod + 1)))

\* C13: a window that a request handler passes to the engine is in
\* non-decreasing timestamp order, and the last 48 entries of the window
\* that get_weather_forecast passes are the 48 most recent rows of the table
\* in ascending time.
C13_HandlersPassAscendingWindows ==
    [][window' # window =>
          /\ \A i \in 1..(Len(window') - 1) :
                 window'[i].timestamp <= window'[i + 1].timestamp
          /\ request.op = "forecast" =>
                 LastK(window', TrendWindow)
                     = LastK(OrderByTimestampAsc(table), TrendWindow)]_vars

\* the readings of the window that carry condition k, by position
Occurrences(k) == {i \in 1..Len(window) : window[i].condition = k}

\* the sum of the counts of the conditions in keys
RECURSIVE SumCounts(_, _)
SumCounts(counts, keys) ==
    IF keys = {} THEN 0
    ELSE LET k == CHOOSE k \in keys : TRUE
         IN  counts[k] + SumCounts(counts, keys \ {k})

\* C14: on a non-empty window calculate_statistics counts the occurrences of
\* each condition, the counts summing to the number of readings, and
\* most_common_condition has the largest count; among the conditions of
\* the largest count it is the one that occurs first in the window.
C14_MostCommonIsFirstLargest ==
    \A c \in DOMAIN calls :
        (IsStatistics(c) /\ window # <<>>) =>
            LET counts == calls[c].returned.condition_distribution
                most == calls[c].returned.most_common_condition
            IN  /\ DOMAIN counts = {window[i].condition : i \in 1..Len(window)}
                /\ \A k \in DOMAIN counts : counts[k] = Cardinality(Occurrences(k))
                /\ SumCounts(counts, DOMAIN counts) = Len(window)
                /\ most \in DOMAIN counts
                /\ \A k \in DOMAIN counts :
                       \/ counts[k] < counts[most]
                       \/ /\ counts[k] = counts[most]
                          /\ \A i \in Occurrences(k) :
                                 \E j \in Occurrences(most) : j <= i

\* two conditions share the largest count, and the one read first is
\* reported although the other is read last
C14_TieTakesFirstRead ==
    \E c \in DOMAIN calls :
        /\ IsStatistics(c)
        /\ Len(window) >= 2
        /\ window[1].condition = calls[c].returned.most_common_condition
        /\ window[Len(window)].condition # calls[c].returned.most_common_condition
        /\ calls[c].returned.condition_distribution[window[Len(window)].condition]
               = calls[c].returned.condition_distribution[window[1].condition]

\* the slope of the humidities of the last 48 readings
HumidityTrend ==
    calculate_trend([i \in 1..Len(LastK(window, TrendWindow)) |->
                        FInt(LastK(window, TrendWindow)[i].humidity)])

\* forecast_humidity of the day at offset day, before it is cut to an integer
ForecastHumidity(humidity_trend, day) ==
    FMax(FInt(20),
         FMin(FInt(100),
              FAdd(FDiv(FInt(RecentHumidity), FInt(RecentCount)),
                   FMul(FMul(humidity_trend, FInt(day)), FDec(3, 10)))))

Wet == {"rainy", "stormy", "snowy"}

\* C15: in every entry of a forecast a rainy, stormy or snowy condition comes
\* with a forecast humidity above 70, and so with a probability of 90 for
\* rainy, 100 for stormy and 95 for snowy; every probability is one of 0, 5,
\* 10, 20, 30, 90, 95, 100.
C15_WetDaysCarryHumidityBonus ==
    (request.op = "forecast" /\ calls # <<>> /\ HasReturned(calls[1])) =>
        LET humidity_trend == HumidityTrend
        IN  \A c \in DOMAIN calls :
                \A d \in 1..Len(calls[c].returned) :
                    /\ calls[c].returned[d].precipitation_probability
                           \in {0, 5, 10, 20, 30, 90, 95, 100}
                    /\ calls[c].returned[d].condition \in Wet =>
                           /\ FGt(ForecastHumidity(humidity_trend, d - 1), FInt(70))
                           /\ calls[c].returned[d].humidity >= 70
                           /\ calls[c].returned[d].precipitation_probability
                                  = IF calls[c].returned[d].condition = "rainy" THEN 90
                                    ELSE IF calls[c].returned[d].condition = "stormy" THEN 100
                                    ELSE 95

\* a rainy day in air no more humid than 80: the rain of the second branch,
\* with the bonus
C15_RainBelowEighty ==
    \E c \in DOMAIN calls :
        /\ IsForecast(c)
        /\ \E d \in 1..Len(calls[c].returned) :
               /\ calls[c].returned[d].condition = "rainy"
               /\ calls[c].returned[d].humidity <= 80
               /\ calls[c].returned[d].precipitation_probability = 90

\* the population standard deviation of the series detect_seasonality reads
SeriesDeviation ==
    LET values == SeasonValues(window, request.metric)
    IN  FSqrt(FDiv(SumSqDev(values, FMean(values)), FInt(Len(values))))

\* C16: in a result of detect_seasonality period_hours and amplitude are
\* both absent when pattern_detected is false and both present when it is
\* true; a detected period p lies in 6 .. min(48, n div 2) - 1, so 2p < n,
\* and the amplitude is the population standard deviation of the series.
C16_SeasonalResultConsistent ==
    (request.op = "seasonality" /\ calls # <<>>) =>
        \A c \in DOMAIN calls :
            /\ HasReturned(calls[c])
            /\ ~calls[c].returned.pattern_detected =>
                   /\ calls[c].returned.period_hours = None
                   /\ calls[c].returned.amplitude = None
            /\ calls[c].returned.pattern_detected =>
                   /\ calls[c].returned.period_hours # None
                   /\ calls[c].returned.amplitude # None
                   /\ calls[c].returned.period_hours[1] \in ScanLags
                   /\ 2 * calls[c].returned.period_hours[1] < Len(window)
                   /\ calls[c].returned.amplitude = Some(SeriesDeviation)

\* a pattern at the longest lag scanned, with an amplitude above 0
C16_PatternAtLongestLag ==
    \E c \in DOMAIN calls :
        /\ IsSeasonal(c)
        /\ calls[c].returned.pattern_detected
        /\ calls[c].returned.period_hours = Some(Len(window) \div 2 - 1)
        /\ ~FIsZero(calls[c].returned.amplitude[1])
====
